---- MODULE Spec2Model ----
(***************************************************************************)
(* Model of the hackathon recommendation engine                            *)
(* (src/recommendation_engine.py) and of the two store reads it performs   *)
(* (src/appwrite_client.py).                                               *)
(*                                                                         *)
(* Python strings are sequences of characters; a character is a one-letter *)
(* TLA+ string, except the rupee sign, written "INR".  Python values that  *)
(* may be missing are records [t, v]: t = "absent" (key not in the dict),  *)
(* t = "none" (key present, value None) or t = "str" (v is the string).    *)
(* Scores are exact fractions written as integers in units of 1/Scale; a   *)
(* composite score is in units of 1/(100 * Scale).                         *)
(***************************************************************************)
EXTENDS Integers, Sequences, FiniteSets, TLC

\* ------------------------------------------------------------------ bounds
MaxListings == 2
MaxCount == 2

\* ------------------------------------------------------------- characters
UpperChars == <<"A","B","C","D","E","F","G","H","I","J","K","L","M",
                "N","O","P","Q","R","S","T","U","V","W","X","Y","Z">>
LowerChars == <<"a","b","c","d","e","f","g","h","i","j","k","l","m",
                "n","o","p","q","r","s","t","u","v","w","x","y","z">>
Digits == {"0","1","2","3","4","5","6","7","8","9"}

LowerChar(c) ==
  IF \E i \in 1..26 : UpperChars[i] = c
  THEN LowerChars[CHOOSE i \in 1..26 : UpperChars[i] = c]
  ELSE c

IsSpace(c) == c = " "

\* \w of the token pattern: letters, digits, underscore
IsWordChar(c) ==
  \/ \E i \in 1..26 : c = UpperChars[i] \/ c = LowerChars[i]
  \/ c \in Digits
  \/ c = "_"

\* ---------------------------------------------------------------- strings
\* str.lower()
Lower(s) == [i \in 1..Len(s) |-> LowerChar(s[i])]

\* needle in hay
Contains(hay, needle) ==
  \E i \in 0..(Len(hay) - Len(needle)) :
    SubSeq(hay, i + 1, i + Len(needle)) = needle

\* str.strip()
Strip(s) ==
  LET idx == {i \in 1..Len(s) : ~IsSpace(s[i])}
  IN IF idx = {} THEN <<>>
     ELSE SubSeq(s, CHOOSE i \in idx : \A j \in idx : i <= j,
                    CHOOSE i \in idx : \A j \in idx : i >= j)

\* The pieces of s between the characters of seps, empty pieces kept
\* (str.split(',') semantics); cur is the piece being read.
RECURSIVE SplitKeep(_, _, _)
SplitKeep(s, cur, seps) ==
  IF s = <<>> THEN <<cur>>
  ELSE IF Head(s) \in seps THEN <<cur>> \o SplitKeep(Tail(s), <<>>, seps)
  ELSE SplitKeep(Tail(s), Append(cur, Head(s)), seps)

DropEmpty(ss) == SelectSeq(ss, LAMBDA x : x # <<>>)

\* str.split(',')
SplitComma(s) == SplitKeep(s, <<>>, {","})

\* str.split(): runs of non-whitespace
SplitWs(s) == DropEmpty(SplitKeep(s, <<>>, {" "}))

\* ' '.join(parts)
RECURSIVE JoinSpace(_)
JoinSpace(parts) ==
  IF parts = <<>> THEN <<>>
  ELSE IF Len(parts) = 1 THEN parts[1]
  ELSE parts[1] \o <<" ">> \o JoinSpace(Tail(parts))

\* set(list)
Range(f) == {f[i] : i \in DOMAIN f}

\* ------------------------------------------------------ Python values
Absent == [t |-> "absent", v |-> <<>>]
None == [t |-> "none", v |-> <<>>]
Str(s) == [t |-> "str", v |-> s]
\* a list of strings (the skills attribute)
List(l) == [t |-> "list", v |-> l]

\* dict.get(key, default): the default only replaces a missing key
GetOr(x, default) == IF x.t = "absent" THEN default ELSE x

\* truth value of an optional string or list: None, '' and [] are falsy
Truthy(x) == x.t \in {"str", "list"} /\ x.v # <<>>

\* f"{x}": None is written out as the word None
Fmt(x) == IF x.t = "none" THEN <<"N","o","n","e">> ELSE x.v

\* -------------------------------------------------------- score units
\* A component score s stands for s / Scale; Scale is divisible by every
\* skill-set size of the model and by 10.
Scale == 6 * 10
Tenths(n) == n * (Scale \div 10)

\* ---------------------------------------------------- keyword literals
kw_online == <<"o","n","l","i","n","e">>
kw_virtual == <<"v","i","r","t","u","a","l">>
kw_offline == <<"o","f","f","l","i","n","e">>
kw_physical == <<"p","h","y","s","i","c","a","l">>
kw_any == <<"a","n","y">>
kw_high == <<"h","i","g","h">>
kw_medium == <<"m","e","d","i","u","m">>
kw_low == <<"l","o","w">>
HighPrizeWords == {<<"l","a","k","h">>, <<"c","r","o","r","e">>,
                   <<"INR","1",",","0","0",",","0","0","0">>,
                   <<"INR","2",",","0","0",",","0","0","0">>}
MediumPrizeWords == {<<"INR","5","0","0","0","0">>, <<"INR","2","5","0","0",
    "0">>,
                     <<"INR","1","0","0","0","0">>}

\* ------------------------------------------------ similarity functions
\* preprocess_skills: the standardized list of skills
preprocess_skills(skills) ==
  IF skills.t = "str"
  THEN LET parts == SplitComma(skills.v)
       IN [i \in 1..Len(parts) |-> Lower(Strip(parts[i]))]
  ELSE IF skills.t = "list"
  THEN LET kept == SelectSeq(skills.v, LAMBDA s : s # <<>>)
       IN [i \in 1..Len(kept) |-> Lower(Strip(kept[i]))]
  ELSE <<>>

\* extract_features_from_hackathon: the lowercased text of a listing
extract_features_from_hackathon(hackathon) ==
  Lower(Fmt(GetOr(hackathon.title, Str(<<>>))) \o <<" ">>
        \o Fmt(GetOr(hackathon.organization, Str(<<>>))) \o <<" ">>
        \o Fmt(GetOr(hackathon.prize, Str(<<>>))) \o <<" ">>
        \o Fmt(GetOr(hackathon.mode, Str(<<>>))) \o <<" ">>
        \o Fmt(GetOr(hackathon.location, Str(<<>>))))

\* The loop of calculate_skill_similarity over the skill set, todo being
\* the skills not yet visited.
RECURSIVE CountSkillMatches(_, _)
CountSkillMatches(todo, text) ==
  IF todo = {} THEN 0
  ELSE LET skill == CHOOSE s \in todo : TRUE
       IN (IF Contains(text, skill) THEN 1 ELSE 0)
          + CountSkillMatches(todo \ {skill}, text)

\* mutant of calculate_skill_similarity: a skill matches whole words only
calculate_skill_similarity_WordMatch(user_skills, hackathon_text) ==
  LET user_skills_set == Range(preprocess_skills(user_skills))
      words == Range(SplitWs(Lower(hackathon_text)))
  IN IF user_skills_set = {} THEN 0
     ELSE (Cardinality(user_skills_set \cap words) * Scale)
            \div Cardinality(user_skills_set)

calculate_skill_similarity(user_skills, hackathon_text) ==
  LET user_skills_set == Range(preprocess_skills(user_skills))
      hackathon_text_lower == Lower(hackathon_text)
  IN IF user_skills_set = {} THEN 0
     ELSE (CountSkillMatches(user_skills_set, hackathon_text_lower) * Scale)
            \div Cardinality(user_skills_set)

\* mutant of calculate_location_match: the online/virtual rule is tested
\* before the equality rule
calculate_location_match_OnlineFirst(user_location, hackathon_location) ==
  IF ~Truthy(user_location) \/ ~Truthy(hackathon_location) THEN Tenths(5)
  ELSE LET ul == Strip(Lower(user_location.v))
           hl == Strip(Lower(hackathon_location.v))
           words == SplitWs(ul)
       IN IF Contains(hl, kw_online) \/ Contains(hl, kw_virtual)
          THEN Tenths(9)
          ELSE IF ul = hl THEN Tenths(10)
          ELSE IF \E i \in 1..Len(words) : Contains(hl, words[i])
          THEN Tenths(7)
          ELSE Tenths(3)

calculate_location_match(user_location, hackathon_location) ==
  IF ~Truthy(user_location) \/ ~Truthy(hackathon_location) THEN Tenths(5)
  ELSE LET ul == Strip(Lower(user_location.v))
           hl == Strip(Lower(hackathon_location.v))
           words == SplitWs(ul)
       IN IF ul = hl THEN Tenths(10)
          ELSE IF Contains(hl, kw_online) \/ Contains(hl, kw_virtual)
          THEN Tenths(9)
          ELSE IF \E i \in 1..Len(words) : Contains(hl, words[i])
          THEN Tenths(7)
          ELSE Tenths(3)


\* mutant of calculate_mode_match: without the online/virtual and
\* offline/physical pairs
calculate_mode_match_EqualOnly(user_mode, hackathon_mode) ==
  IF ~Truthy(user_mode) \/ ~Truthy(hackathon_mode) THEN Tenths(5)
  ELSE IF Strip(Lower(user_mode.v)) = Strip(Lower(hackathon_mode.v))
  THEN Tenths(10)
  ELSE Tenths(3)

calculate_mode_match(user_mode, hackathon_mode) ==
  IF ~Truthy(user_mode) \/ ~Truthy(hackathon_mode) THEN Tenths(5)
  ELSE LET um == Strip(Lower(user_mode.v))
           hm == Strip(Lower(hackathon_mode.v))
       IN IF um = hm THEN Tenths(10)
          ELSE IF um = kw_online /\ hm \in {kw_online, kw_virtual}
          THEN Tenths(10)
          ELSE IF um = kw_offline /\ hm \in {kw_offline, kw_physical}
          THEN Tenths(10)
          ELSE Tenths(3)


\* mutant of prize_level: the medium words are looked for first
prize_level_MediumFirst(hackathon_prize) ==
  LET hackathon_prize_lower == Lower(hackathon_prize)
  IN IF \E w \in MediumPrizeWords : Contains(hackathon_prize_lower, w)
     THEN kw_medium
     ELSE IF \E w \in HighPrizeWords : Contains(hackathon_prize_lower, w)
     THEN kw_high
     ELSE kw_low

\* the prize level calculate_prize_match derives from a prize text
prize_level(hackathon_prize) ==
  LET hackathon_prize_lower == Lower(hackathon_prize)
  IN IF \E w \in HighPrizeWords : Contains(hackathon_prize_lower, w)
     THEN kw_high
     ELSE IF \E w \in MediumPrizeWords : Contains(hackathon_prize_lower, w)
     THEN kw_medium
     ELSE kw_low


\* mutant of calculate_prize_match: the preference "any" is compared with
\* the level like every other preference
calculate_prize_match_AnyCompared(user_prize_preference, hackathon_prize) ==
  IF ~Truthy(hackathon_prize) THEN Tenths(3)
  ELSE IF ~Truthy(user_prize_preference) THEN Tenths(7)
  ELSE IF user_prize_preference.v = prize_level(hackathon_prize.v)
  THEN Tenths(10)
  ELSE Tenths(5)

calculate_prize_match(user_prize_preference, hackathon_prize) ==
  IF ~Truthy(hackathon_prize) THEN Tenths(3)
  ELSE IF ~Truthy(user_prize_preference) \/ user_prize_preference.v = kw_any
  THEN Tenths(7)
  ELSE IF user_prize_preference.v = prize_level(hackathon_prize.v)
  THEN Tenths(10)
  ELSE Tenths(5)

\* ---------------------------------------------------- content similarity
\* The stop words of TfidfVectorizer(stop_words='english') that occur in the
\* texts of this model.
StopWords == {<<"a","n","y">>, <<"g","o">>, <<"n","o","n","e">>, <<"a","n",
    "d">>,
              <<"t","h","e">>, <<"o","f">>, <<"f","o","r">>}

\* maximal runs of word characters of s; cur is the run being read
RECURSIVE WordRuns(_, _)
WordRuns(s, cur) ==
  IF s = <<>> THEN <<cur>>
  ELSE IF IsWordChar(Head(s)) THEN WordRuns(Tail(s), Append(cur, Head(s)))
  ELSE <<cur>> \o WordRuns(Tail(s), <<>>)

\* The analyzer of the vectorizer: lowercase, tokens of two or more word
\* characters, stop words dropped.
Tokens(doc) ==
  SelectSeq(WordRuns(Lower(doc), <<>>),
            LAMBDA w : Len(w) >= 2 /\ w \notin StopWords)

\* term frequency of t in a token sequence
TermCount(toks, t) == Cardinality({i \in 1..Len(toks) : toks[i] = t})

\* TfidfVectorizer(stop_words='english', max_features=1000) before any fit
MaxFeatures == 1000
UnfittedVectorizer == [fitted |-> FALSE, vocabulary |-> {}, both |-> {}]

\* fit on a corpus of two documents: the vocabulary, and the terms with
\* document frequency 2 (the others have document frequency 1)
FitVectorizer(corpus) ==
  LET t1 == Range(Tokens(corpus[1]))
      t2 == Range(Tokens(corpus[2]))
  IN [fitted |-> TRUE, vocabulary |-> t1 \cup t2, both |-> t1 \cap t2]

\* idf(t)^2 in units of 1/40: idf = ln(3 / (1 + df)) + 1 is 1 for df = 2 and
\* 1.4055 for df = 1, whose square 1.9753 is taken as 79/40.
IdfSq(vec, t) == IF t \in vec.both THEN 40 ELSE 79

RECURSIVE SumOver(_, _)
SumOver(S, f) ==
  IF S = {} THEN 0
  ELSE LET x == CHOOSE y \in S : TRUE IN f[x] + SumOver(S \ {x}, f)

\* floor of the square root
ISqrt(n) == CHOOSE r \in 0..n : r * r <= n /\ (r + 1) * (r + 1) > n

\* cosine_similarity of the tf-idf rows of two documents under a fitted
\* vectorizer, rounded down to a multiple of 1/Scale; a zero row gives 0
CosineSimilarity(vec, doc1, doc2) ==
  LET k1 == Tokens(doc1)
      k2 == Tokens(doc2)
      V == vec.vocabulary
      dot == SumOver(V, [t \in V |-> TermCount(k1, t) * TermCount(k2,
          t) * IdfSq(vec, t)])
      n1 == SumOver(V, [t \in V |-> TermCount(k1, t) * TermCount(k1,
          t) * IdfSq(vec, t)])
      n2 == SumOver(V, [t \in V |-> TermCount(k2, t) * TermCount(k2,
          t) * IdfSq(vec, t)])
  IN IF n1 = 0 \/ n2 = 0 THEN 0
     ELSE LET q == ISqrt(((Scale * dot) * (Scale * dot)) \div (n1 * n2))
          IN IF q > Scale THEN Scale ELSE q

\* the user text of calculate_content_similarity; ' '.join of a string puts
\* a space between its characters
UserText(user_profile) ==
  LET user_skills == GetOr(user_profile.skills, List(<<>>))
      joined == IF user_skills.t = "list" THEN JoinSpace(user_skills.v)
                ELSE JoinSpace([i \in 1..Len(user_skills.v) |-> <<user_skills.v[i]>>])
  IN Strip(joined \o <<" ">> \o Fmt(GetOr(user_profile.location, Str(<<>>)))
                  \o <<" ">> \o Fmt(GetOr(user_profile.mode, Str(<<>>))))

\* calculate_content_similarity on an engine whose vectorizer is vec: the
\* value returned (ret), the vectorizer afterwards (vec) and whether the
\* except branch was taken (caught)


\* mutant of calculate_content_similarity: a vectorizer that is fitted
\* already is not fitted again, only used to transform
calculate_content_similarity_KeepsFit(vec, user_profile, hackathon) ==
  IF GetOr(user_profile.skills, List(<<>>)).t = "none"
  THEN [ret |-> 0, vec |-> vec, caught |-> TRUE]
  ELSE LET user_text == UserText(user_profile)
           hackathon_text == extract_features_from_hackathon(hackathon)
           corpus == <<Lower(user_text), hackathon_text>>
           fit == IF vec.fitted THEN vec ELSE FitVectorizer(corpus)
       IN IF user_text = <<>> \/ hackathon_text = <<>>
          THEN [ret |-> 0, vec |-> vec, caught |-> FALSE]
          ELSE IF fit.vocabulary = {}
          THEN [ret |-> 0, vec |-> vec, caught |-> TRUE]
          ELSE [ret |-> CosineSimilarity(fit, corpus[1], corpus[2]),
                vec |-> fit, caught |-> FALSE]

\* mutant of calculate_content_similarity: the except branch and the
\* empty-text test return the neutral 0.5
calculate_content_similarity_NeutralHalf(vec, user_profile, hackathon) ==
  IF GetOr(user_profile.skills, List(<<>>)).t = "none"
  THEN [ret |-> Tenths(5), vec |-> vec, caught |-> TRUE]
  ELSE LET user_text == UserText(user_profile)
           hackathon_text == extract_features_from_hackathon(hackathon)
           corpus == <<Lower(user_text), hackathon_text>>
           fit == FitVectorizer(corpus)
       IN IF user_text = <<>> \/ hackathon_text = <<>>
          THEN [ret |-> Tenths(5), vec |-> vec, caught |-> FALSE]
          ELSE IF fit.vocabulary = {}
          THEN [ret |-> Tenths(5), vec |-> vec, caught |-> TRUE]
          ELSE [ret |-> CosineSimilarity(fit, corpus[1], corpus[2]),
                vec |-> fit, caught |-> FALSE]

calculate_content_similarity(vec, user_profile, hackathon) ==
  IF GetOr(user_profile.skills, List(<<>>)).t = "none"
  THEN [ret |-> 0, vec |-> vec, caught |-> TRUE]
  ELSE LET user_text == UserText(user_profile)
           hackathon_text == extract_features_from_hackathon(hackathon)
           corpus == <<Lower(user_text), hackathon_text>>
           fit == FitVectorizer(corpus)
       IN IF user_text = <<>> \/ hackathon_text = <<>>
          THEN [ret |-> 0, vec |-> vec, caught |-> FALSE]
          ELSE IF fit.vocabulary = {}
          THEN [ret |-> 0, vec |-> vec, caught |-> TRUE]
          ELSE [ret |-> CosineSimilarity(fit, corpus[1], corpus[2]),
                vec |-> fit, caught |-> FALSE]

\* ------------------------------------------------------------- the store
\* A user document; `mode` is the attribute calculate_content_similarity
\* reads, `mode_preference` the one get_recommendations reads.
UserDoc(skills, location, mode_preference, prize_preference, mode) ==
  [skills |-> skills, location |-> location,
   mode_preference |-> mode_preference,
   prize_preference |-> prize_preference, mode |-> mode]

\* A hackathon document; id is its '$id'.
Hackathon(id, title, organization, prize, mode, location) ==
  [id |-> id, title |-> title, organization |-> organization,
   prize |-> prize, mode |-> mode, location |-> location]

U1 == UserDoc(List(<<<<"P","y","t","h","o","n">>, <<"r","e","a","c","t">>>>),
              Str(<<"M","u","m","b","a","i">>), Str(kw_online), Str(kw_any),
                  Str(kw_online))
U2 == UserDoc(None, None, Absent, Str(kw_high), Absent)

UserIds == {"u0", "u1", "u2"}
StoredUsers == [u \in {"u1", "u2"} |-> IF u = "u1" THEN U1 ELSE U2]

H1 == Hackathon(Str(<<"h","1">>), Str(<<"P","y","t","h","o","n"," ","W","e",
    "b">>), Absent,
                Str(<<"INR","1","0","0","0","0">>), Str(kw_online), Str(<<"M",
                    "u","m","b","a","i">>))
H2 == Hackathon(Str(<<"h","2">>), Str(<<"A","r","t"," ","C","o","n","t","e",
    "s","t">>), Str(<<"D","e","l","h","i"," ","A","r","t","s">>),
                None, Str(<<"O","n","l","i","n","e">>), None)
H3 == Hackathon(Str(<<"h","3">>), Str(<<"P","y","t","h","o","n"," ","W","e",
    "b">>), Absent,
                Str(<<"INR","1","0","0","0","0">>), Str(kw_online), Str(<<"M",
                    "u","m","b","a","i">>))
H4 == Hackathon(Str(<<"h","4">>), None, Str(<<"p","y","t","h","o","n"," ","r",
    "e","a","c","t"," ","g","o"," ","a","r","t">>),
                Str(<<"2"," ","L","a","k","h">>), Str(kw_online), Str(<<"M",
                    "u","m","b","a","i">>))
H6 == Hackathon(Str(<<>>), Str(<<"P","y","t","h","o","n"," ","R","e","a","c",
    "t">>), Absent,
                Str(<<"1"," ","c","r","o","r","e">>), Str(kw_online),
                    Str(<<"m","u","m","b","a","i">>))
ListingPool == {H1, H2, H3, H4, H6}

\* the sequences of distinct listings of length n
RECURSIVE DistinctSeqs(_, _)
DistinctSeqs(S, n) ==
  IF n = 0 THEN {<<>>}
  ELSE UNION {{Append(s, x) : x \in S \ Range(s)} : s \in DistinctSeqs(S,
      n - 1)}

StoreContents == UNION {DistinctSeqs(ListingPool, n) : n \in 0..MaxListings}

\* HackathonAppwriteClient.get_user: the document, or None when the store
\* has no such user or cannot be reached (both except branches return None)
NoUser == [found |-> FALSE, doc |-> UserDoc(Absent, Absent, Absent, Absent,
    Absent)]
get_user(users, user_id, reachable) ==
  IF reachable /\ user_id \in DOMAIN users
  THEN [found |-> TRUE, doc |-> users[user_id]]
  ELSE NoUser


\* mutant of SliceTo: the last n elements are kept
SliceTo_FromEnd(xs, n) ==
  IF n >= 0 /\ n < Len(xs) THEN SubSeq(xs, Len(xs) - n + 1, Len(xs)) ELSE xs

\* mutant of SliceTo: the slice keeps the whole list
SliceTo_NoTruncate(xs, n) == xs

\* xs[:n]
SliceTo(xs, n) ==
  IF n >= 0 THEN SubSeq(xs, 1, IF n < Len(xs) THEN n ELSE Len(xs))
  ELSE SubSeq(xs, 1, Len(xs) + n)


\* mutant of get_hackathons: after an error the documents of an earlier
\* fetch are served
get_hackathons_Cached(stored, limit, outcome) ==
  [kind |-> IF outcome = "malformed" THEN "nodocuments" ELSE "result",
   documents |-> IF outcome = "malformed" THEN <<>> ELSE SliceTo(stored, limit)]

\* HackathonAppwriteClient.get_hackathons: outcome "ok" is the list result
\* (at most limit documents), "error" the None of an except branch,
\* "malformed" a result without the 'documents' key
get_hackathons(stored, limit, outcome) ==
  [kind |-> IF outcome = "ok" THEN "result"
            ELSE IF outcome = "error" THEN "none" ELSE "nodocuments",
   documents |-> IF outcome = "ok" THEN SliceTo(stored, limit) ELSE <<>>]

\* ----------------------------------------------------------- the ranker
W_skill == 30
W_content == 25
W_location == 20
W_mode == 15
W_prize == 10
FetchLimit == 500

\* mutant of final_score: the weights of skill and content swapped
final_score_SwappedWeights(skill_score, content_similarity, location_score, mode_score, prize_score) ==
  skill_score * W_content + content_similarity * W_skill
    + location_score * W_location + mode_score * W_mode
    + prize_score * W_prize

\* the weighted final score, in units of 1/(100 * Scale)
final_score(skill_score, content_similarity, location_score, mode_score, prize_score) ==
  skill_score * W_skill + content_similarity * W_content
    + location_score * W_location + mode_score * W_mode
    + prize_score * W_prize


\* mutant of get_recommendation_reason: a location score on the threshold
\* matches the location rule
get_recommendation_reason_AtThreshold(skill_score, content_similarity, location_score, mode_score) ==
  IF skill_score * 10 > 4 * Scale THEN "Matches your technical skills"
  ELSE IF content_similarity * 10 > 3 * Scale
  THEN "Similar to your interests and profile"
  ELSE IF location_score * 10 >= 7 * Scale THEN "Perfect location match"
  ELSE IF mode_score * 10 > 8 * Scale THEN "Matches your preferred mode"
  ELSE "Recommended for you"

get_recommendation_reason(skill_score, content_similarity, location_score, mode_score) ==
  IF skill_score * 10 > 4 * Scale THEN "Matches your technical skills"
  ELSE IF content_similarity * 10 > 3 * Scale
  THEN "Similar to your interests and profile"
  ELSE IF location_score * 10 > 7 * Scale THEN "Perfect location match"
  ELSE IF mode_score * 10 > 8 * Scale THEN "Matches your preferred mode"
  ELSE "Recommended for you"

\* mutant of HasRequiredFields: the title is not tested
HasRequiredFields_IdOnly(hackathon) == Truthy(hackathon.id)

\* the required-fields test of the scoring loop
HasRequiredFields(hackathon) ==
  Truthy(hackathon.id) /\ Truthy(hackathon.title)

\* The entry appended to hackathon_scores for a listing whose content
\* similarity came out as content_similarity.
ScoreEntry(user_data, hackathon, content_similarity) ==
  LET user_skills == GetOr(user_data.skills, List(<<>>))
      user_location == GetOr(user_data.location, Str(<<>>))
      user_mode_preference == GetOr(user_data.mode_preference, Str(kw_online))
      user_prize_preference == GetOr(user_data.prize_preference, Str(kw_any))
      skill_score == calculate_skill_similarity(user_skills, extract_features_from_hackathon(hackathon))
      location_score == calculate_location_match(user_location, GetOr(hackathon.location, Str(<<>>)))
      mode_score == calculate_mode_match(user_mode_preference, GetOr(hackathon.mode, Str(<<>>)))
      prize_score == calculate_prize_match(user_prize_preference, GetOr(hackathon.prize, Str(<<>>)))
  IN [hackathon |-> hackathon,
      score |-> final_score(skill_score, content_similarity, location_score, mode_score, prize_score),
      skill_score |-> skill_score,
      location_score |-> location_score,
      mode_score |-> mode_score,
      prize_score |-> prize_score,
      content_similarity |-> content_similarity,
      recommendation_reason |-> get_recommendation_reason(skill_score, content_similarity, location_score, mode_score)]

\* One pass of the scoring loop for a listing that has the required fields:
\* the entry appended to hackathon_scores (entry) and the engine's
\* vectorizer afterwards (vec).
ScoreOne(vec, user_data, hackathon) ==
  LET content == calculate_content_similarity(vec, user_data, hackathon)
  IN [entry |-> ScoreEntry(user_data, hackathon, content.ret),
      vec |-> content.vec]

\* The scoring loop from listing i on: acc is hackathon_scores so far.
RECURSIVE ScoreLoop(_, _, _, _, _)
ScoreLoop(vec, user_data, hackathons, i, acc) ==
  IF i > Len(hackathons) THEN [scores |-> acc, vec |-> vec]
  ELSE IF ~HasRequiredFields(hackathons[i])
  THEN ScoreLoop(vec, user_data, hackathons, i + 1, acc)
  ELSE LET one == ScoreOne(vec, user_data, hackathons[i])
       IN ScoreLoop(one.vec, user_data, hackathons, i + 1,
                    Append(acc, one.entry))

\* mutant of InsertByScore: an unstable sort that puts a later entry before
\* the earlier entries of equal score
RECURSIVE InsertByScore_Unstable(_, _)
InsertByScore_Unstable(sorted, e) ==
  IF sorted = <<>> THEN <<e>>
  ELSE IF Head(sorted).score > e.score
  THEN <<Head(sorted)>> \o InsertByScore_Unstable(Tail(sorted), e)
  ELSE <<e>> \o sorted

\* list.sort(key=score, reverse=True): stable, equal scores keep their order
RECURSIVE InsertByScore(_, _)
InsertByScore(sorted, e) ==
  IF sorted = <<>> THEN <<e>>
  ELSE IF Head(sorted).score >= e.score
  THEN <<Head(sorted)>> \o InsertByScore(Tail(sorted), e)
  ELSE <<e>> \o sorted


\* mutant of SortByScore: the list is left in fetch order
SortByScore_FetchOrder(xs) == xs

RECURSIVE SortByScore(_)
SortByScore(xs) ==
  IF xs = <<>> THEN <<>>
  ELSE InsertByScore(SortByScore(SubSeq(xs, 1, Len(xs) - 1)), xs[Len(xs)])

\* ------------------------------------------------------------ the filters
NoFilters == [t |-> "none", mode |-> Absent, location |-> Absent,
              prize_range |-> Absent]
Filters(mode, location, prize_range) ==
  [t |-> "dict", mode |-> mode, location |-> location,
   prize_range |-> prize_range]

FilterPool ==
  {NoFilters,
   Filters(Absent, Absent, Absent),
   Filters(Str(kw_online), Absent, Absent),
   Filters(Absent, Str(<<"M","U","M">>), Absent),
   Filters(Absent, Absent, Str(kw_high))}

\* `not filters`: None or an empty dict
FiltersFalsy(filters) ==
  \/ filters.t = "none"
  \/ filters.mode.t = "absent" /\ filters.location.t = "absent"
       /\ filters.prize_range.t = "absent"

FilterHighWords == {<<"l","a","k","h">>, <<"c","r","o","r","e">>, <<"INR","1",
    ",","0","0",",","0","0","0">>}
FilterMediumWords == {<<"INR","1","0","0","0","0">>, <<"INR","2","5","0","0",
    "0">>, <<"INR","5","0","0","0","0">>}
FilterLowWords == {<<"INR","1","0","0","0">>, <<"INR","5","0","0","0">>}

\* equality of two optional strings (hackathon.get('mode') != filters['mode'])
SameValue(a, b) == a.t = b.t /\ a.v = b.v

\* mutant of ModeFilterSkips: the modes are compared ignoring case
ModeFilterSkips_IgnoreCase(filters, hackathon) ==
  /\ Truthy(filters.mode)
  /\ ~(hackathon.mode.t = "str"
       /\ Lower(hackathon.mode.v) = Lower(filters.mode.v))

\* the mode filter: hackathon.get('mode') != filters['mode']
ModeFilterSkips(filters, hackathon) ==
  /\ Truthy(filters.mode)
  /\ ~SameValue(IF hackathon.mode.t = "absent" THEN None ELSE hackathon.mode,
                filters.mode)

\* the location filter calls .lower() on a location that is None
LocationFilterRaises(filters, hackathon) ==
  Truthy(filters.location) /\ hackathon.location.t = "none"

LocationFilterSkips(filters, hackathon) ==
  /\ Truthy(filters.location)
  /\ ~Contains(Lower(GetOr(hackathon.location, Str(<<>>)).v),
               Lower(filters.location.v))

\* the prize filter calls .lower() on a prize that is None
PrizeFilterRaises(filters, hackathon) ==
  Truthy(filters.prize_range) /\ hackathon.prize.t = "none"

PrizeFilterSkips(filters, hackathon) ==
  /\ Truthy(filters.prize_range)
  /\ LET hackathon_prize == Lower(GetOr(hackathon.prize, Str(<<>>)).v)
         prize_range == filters.prize_range.v
     IN \/ prize_range = kw_high
           /\ ~\E w \in FilterHighWords : Contains(hackathon_prize, w)
        \/ prize_range = kw_medium
           /\ ~\E w \in FilterMediumWords : Contains(hackathon_prize, w)
        \/ prize_range = kw_low
           /\ ~\E w \in FilterLowWords : Contains(hackathon_prize, w)

\* One pass of the filter loop on a listing: "keep", "skip" (continue) or
\* "raise" (AttributeError).
FilterVerdict(filters, hackathon) ==
  IF ModeFilterSkips(filters, hackathon) THEN "skip"
  ELSE IF LocationFilterRaises(filters, hackathon) THEN "raise"
  ELSE IF LocationFilterSkips(filters, hackathon) THEN "skip"
  ELSE IF PrizeFilterRaises(filters, hackathon) THEN "raise"
  ELSE IF PrizeFilterSkips(filters, hackathon) THEN "skip"
  ELSE "keep"

\* The filter loop from recommendation i on; acc is filtered_recommendations.
RECURSIVE FilterLoop(_, _, _, _, _)
FilterLoop(recommendations, filters, num_recommendations, i, acc) ==
  IF i > Len(recommendations) THEN [kind |-> "return", value |-> acc]
  ELSE LET verdict == FilterVerdict(filters, recommendations[i].hackathon)
       IN IF verdict = "raise"
          THEN [kind |-> "raise", value |-> <<>>]
          ELSE IF verdict = "skip"
          THEN FilterLoop(recommendations, filters, num_recommendations,
              i + 1, acc)
          ELSE IF Len(acc) + 1 >= num_recommendations
          THEN [kind |-> "return", value |-> Append(acc, recommendations[i])]
          ELSE FilterLoop(recommendations, filters, num_recommendations, i + 1,
                          Append(acc, recommendations[i]))

\* get_filtered_recommendations after its call of get_recommendations
FilterRecommendations(recommendations, filters, num_recommendations) ==
  IF FiltersFalsy(filters)
  THEN [kind |-> "return", value |-> SliceTo(recommendations,
      num_recommendations)]
  ELSE FilterLoop(recommendations, filters, num_recommendations, 1, <<>>)

\* ------------------------------------------------------------------ state
VARIABLES
  store_users,        \* the users collection: user id -> document
  store_hackathons,   \* the hackathons collection, in the order it is listed
  tfidf_vectorizer,   \* self.tfidf_vectorizer of the engine
  pc,                 \* where the call in progress stands
  op,                 \* "rank" (get_recommendations) or "filteredRank"
  user_id,            \* arguments of the call
  count,
  filters,
  user_data,          \* locals of get_recommendations
  hackathons,
  hackathon_scores,
  recommendations,    \* what get_recommendations returned
  result,             \* outcome of the call: [kind, value]
  store_calls,        \* the store operations the call has made, in order
  response,           \* what the route get_user_recommendations answered
  threads,            \* SpecConc: the locals of each of two concurrent calls
  fn                  \* SpecFn: the similarity function applied last

vars == <<store_users, store_hackathons, tfidf_vectorizer, pc, op, user_id,
          count, filters, user_data, hackathons, hackathon_scores,
          recommendations, result, store_calls, response, threads, fn>>

store == <<store_users, store_hackathons>>
args == <<op, user_id, count, filters>>

\* an entry of store_calls: the operation, its limit argument (0 for
\* get_user), whether the store was reached (no except branch of the client
\* ran) and what the store client returned
StoreCall(call, limit, reached, outcome) ==
  [call |-> call, limit |-> limit, reached |-> reached, outcome |-> outcome]

\* no similarity function applied yet (SpecFn)
NoFn ==
  [name |-> "none", a |-> None, b |-> None, ret |-> 0, exc |-> "none",
   caught |-> FALSE]

NoResult == [kind |-> "none", value |-> <<>>]

\* the two threads of SpecConc, and a thread that runs no call
Threads == {1, 2}
ThreadIdle ==
  [pc |-> "idle", user_id |-> "u0", hackathons |-> <<>>, i |-> 0,
   hackathon_scores |-> <<>>, corpus |-> <<>>, result |-> NoResult]

\* no answer of the route yet
NoResponse == [success |-> FALSE, status |-> 0, recommendations |-> <<>>]
Return(value) == [kind |-> "return", value |-> value]
Raise == [kind |-> "raise", value |-> <<>>]

Counts == (0 - 1)..MaxCount

\* the count get_recommendations is called with
RankCount == IF op = "filteredRank" THEN count * 2 ELSE count

Init ==
  /\ store_users = StoredUsers
  /\ store_hackathons \in StoreContents
  /\ tfidf_vectorizer = UnfittedVectorizer
  /\ pc = "idle"
  /\ op = "rank"
  /\ user_id = "u0"
  /\ count = 0
  /\ filters = NoFilters
  /\ user_data = NoUser
  /\ hackathons = <<>>
  /\ hackathon_scores = <<>>
  /\ recommendations = <<>>
  /\ result = NoResult
  /\ store_calls = <<>>
  /\ response = NoResponse
  /\ threads = [t \in Threads |-> ThreadIdle]
  /\ fn = NoFn

ClearLocals ==
  /\ user_data' = NoUser
  /\ hackathons' = <<>>
  /\ hackathon_scores' = <<>>
  /\ recommendations' = <<>>
  /\ result' = NoResult
  /\ store_calls' = <<>>
  /\ response' = NoResponse

\* a caller invokes get_recommendations(user_id, num_recommendations)
CallRank ==
  /\ pc = "idle"
  /\ \E u \in UserIds, n \in Counts :
       /\ op' = "rank"
       /\ user_id' = u
       /\ count' = n
       /\ filters' = NoFilters
  /\ pc' = "get_user"
  /\ ClearLocals
  /\ UNCHANGED <<fn, threads, store, tfidf_vectorizer>>

\* a caller invokes get_filtered_recommendations(user_id, filters, n)
CallFilteredRank ==
  /\ pc = "idle"
  /\ \E u \in UserIds, f \in FilterPool, n \in Counts :
       /\ op' = "filteredRank"
       /\ user_id' = u
       /\ count' = n
       /\ filters' = f
  /\ pc' = "get_user"
  /\ ClearLocals
  /\ UNCHANGED <<fn, threads, store, tfidf_vectorizer>>

\* get_recommendations has returned value: rank is done, filteredRank
\* goes on to its filter pass
RankReturns(value) ==
  /\ recommendations' = value
  /\ IF op = "rank"
     THEN pc' = "done" /\ result' = Return(value)
     ELSE pc' = "filter" /\ result' = result

\* mutant of GetUser: no not-found test, so user_data.get fails on None
GetUser_NoNotFoundTest ==
  /\ pc = "get_user"
  /\ \E reachable \in BOOLEAN :
       LET found == get_user(store_users, user_id, reachable)
       IN /\ user_data' = found
          /\ store_calls' = Append(store_calls,
               StoreCall("get_user", 0, reachable,
                   IF found.found THEN "found" ELSE "none"))
          /\ IF found.found
             THEN /\ pc' = "get_hackathons"
                  /\ UNCHANGED <<recommendations, result>>
             ELSE /\ pc' = "done"
                  /\ result' = Raise
                  /\ UNCHANGED recommendations
  /\ UNCHANGED <<fn, threads, response, store, tfidf_vectorizer, args, hackathons,
      hackathon_scores>>

\* self.client.get_user(user_id) and the not-found test
GetUser ==
  /\ pc = "get_user"
  /\ \E reachable \in BOOLEAN :
       LET found == get_user(store_users, user_id, reachable)
       IN /\ user_data' = found
          /\ store_calls' = Append(store_calls,
               StoreCall("get_user", 0, reachable,
                   IF found.found THEN "found" ELSE "none"))
          /\ IF found.found
             THEN /\ pc' = "get_hackathons"
                  /\ UNCHANGED <<recommendations, result>>
             ELSE RankReturns(<<>>)
  /\ UNCHANGED <<fn, threads, response, store, tfidf_vectorizer, args, hackathons,
      hackathon_scores>>

\* mutant of GetHackathons: no test for an empty documents list, whose
\* first element is then read
GetHackathons_ReadsFirst ==
  /\ pc = "get_hackathons"
  /\ \E outcome \in {"ok", "error", "malformed"} :
       LET hackathons_response == get_hackathons(store_hackathons, FetchLimit,
           outcome)
       IN /\ store_calls' = Append(store_calls,
               StoreCall("get_hackathons", FetchLimit, outcome # "error",
                   hackathons_response.kind))
          /\ IF hackathons_response.kind = "none"
             THEN RankReturns(<<>>) /\ hackathons' = hackathons
             ELSE IF hackathons_response.kind = "nodocuments"
                     \/ hackathons_response.documents = <<>>
             THEN /\ pc' = "done"
                  /\ result' = Raise
                  /\ UNCHANGED <<recommendations, hackathons>>
             ELSE /\ hackathons' = hackathons_response.documents
                  /\ pc' = "score"
                  /\ UNCHANGED <<recommendations, result>>
  /\ UNCHANGED <<fn, threads, response, store, tfidf_vectorizer, args, user_data,
      hackathon_scores>>

\* mutant of GetHackathons: the list request asks for as many listings as
\* the caller wants recommendations
GetHackathons_LimitCount ==
  /\ pc = "get_hackathons"
  /\ \E outcome \in {"ok", "error", "malformed"} :
       LET hackathons_response == get_hackathons(store_hackathons, RankCount,
           outcome)
       IN /\ store_calls' = Append(store_calls,
               StoreCall("get_hackathons", RankCount, outcome # "error",
                   hackathons_response.kind))
          /\ IF hackathons_response.kind = "none"
             THEN RankReturns(<<>>) /\ hackathons' = hackathons
             ELSE IF hackathons_response.kind = "nodocuments"
             THEN /\ pc' = "done"
                  /\ result' = Raise
                  /\ UNCHANGED <<recommendations, hackathons>>
             ELSE IF hackathons_response.documents = <<>>
             THEN RankReturns(<<>>) /\ hackathons' = hackathons
             ELSE /\ hackathons' = hackathons_response.documents
                  /\ pc' = "score"
                  /\ UNCHANGED <<recommendations, result>>
  /\ UNCHANGED <<fn, threads, response, store, tfidf_vectorizer, args, user_data,
      hackathon_scores>>

\* self.client.get_hackathons(limit=500) and the no-hackathons test
GetHackathons ==
  /\ pc = "get_hackathons"
  /\ \E outcome \in {"ok", "error", "malformed"} :
       LET hackathons_response == get_hackathons(store_hackathons, FetchLimit,
           outcome)
       IN /\ store_calls' = Append(store_calls,
               StoreCall("get_hackathons", FetchLimit, outcome # "error",
                   hackathons_response.kind))
          /\ IF hackathons_response.kind = "none"
             THEN RankReturns(<<>>) /\ hackathons' = hackathons
             ELSE IF hackathons_response.kind = "nodocuments"
             THEN /\ pc' = "done"
                  /\ result' = Raise
                  /\ UNCHANGED <<recommendations, hackathons>>
             ELSE IF hackathons_response.documents = <<>>
             THEN RankReturns(<<>>) /\ hackathons' = hackathons
             ELSE /\ hackathons' = hackathons_response.documents
                  /\ pc' = "score"
                  /\ UNCHANGED <<recommendations, result>>
  /\ UNCHANGED <<fn, threads, response, store, tfidf_vectorizer, args, user_data,
      hackathon_scores>>

\* the scoring loop over the fetched listings
Score ==
  /\ pc = "score"
  /\ LET loop == ScoreLoop(tfidf_vectorizer, user_data.doc, hackathons, 1,
      <<>>)
     IN /\ hackathon_scores' = loop.scores
        /\ tfidf_vectorizer' = loop.vec
  /\ pc' = "sort"
  /\ UNCHANGED <<fn, threads, response, store, args, user_data, hackathons, recommendations,
      result,
                 store_calls>>

\* hackathon_scores.sort(...) and return hackathon_scores[:num_recommendations]
SortAndSlice ==
  /\ pc = "sort"
  /\ hackathon_scores' = SortByScore(hackathon_scores)
  /\ RankReturns(SliceTo(hackathon_scores', RankCount))
  /\ UNCHANGED <<fn, threads, response, store, tfidf_vectorizer, args, user_data, hackathons,
      store_calls>>

\* the rest of get_filtered_recommendations
Filter ==
  /\ pc = "filter"
  /\ result' = FilterRecommendations(recommendations, filters, count)
  /\ pc' = "done"
  /\ UNCHANGED <<fn, threads, response, store, tfidf_vectorizer, args, user_data, hackathons,
                 hackathon_scores, recommendations, store_calls>>

\* format_hackathon_for_frontend, for the attributes of the model
format_hackathon_for_frontend(hackathon) ==
  [id |-> GetOr(hackathon.id, Str(<<>>)),
   title |-> GetOr(hackathon.title, Str(<<"U","n","t","i","t","l","e","d"," ","H","a","c","k","a","t","h","o","n">>)),
   organization |-> GetOr(hackathon.organization, Str(<<"U","n","k","n","o","w","n"," ","O","r","g","a","n","i","z","a","t","i","o","n">>)),
   location |-> GetOr(hackathon.location, Str(<<"L","o","c","a","t","i","o","n"," ","T","B","A">>)),
   mode |-> GetOr(hackathon.mode, Str(kw_online)),
   prize |-> GetOr(hackathon.prize, Str(<<"P","r","i","z","e"," ","n","o","t"," ","s","p","e","c","i","f","i","e","d">>))]

\* one element of formatted_recommendations
FormatRecommendation(rec) ==
  [hackathon |-> format_hackathon_for_frontend(rec.hackathon),
   recommendation_score |-> rec.score,
   recommendation_reason |-> rec.recommendation_reason]

\* what the route get_user_recommendations answers for the outcome of
\* get_recommendations: the formatted list, or success False with an empty
\* list from its except branch
get_user_recommendations(outcome) ==
  IF outcome.kind = "raise"
  THEN [success |-> FALSE, status |-> 500, recommendations |-> <<>>]
  ELSE [success |-> TRUE, status |-> 200,
        recommendations |-> [i \in 1..Len(outcome.value) |-> FormatRecommendation(outcome.value[i])]]

\* the route get_user_recommendations, which called get_recommendations,
\* answers
Respond ==
  /\ pc = "done" /\ op = "rank"
  /\ response' = get_user_recommendations(result)
  /\ pc' = "responded"
  /\ UNCHANGED <<fn, threads, store, tfidf_vectorizer, args, user_data, hackathons,
                 hackathon_scores, recommendations, result, store_calls>>

\* the caller takes the outcome; the engine is ready for the next call
Finish ==
  /\ pc = "responded" \/ (pc = "done" /\ op = "filteredRank")
  /\ pc' = "idle"
  /\ op' = "rank" /\ user_id' = "u0" /\ count' = 0 /\ filters' = NoFilters
  /\ ClearLocals
  /\ UNCHANGED <<fn, threads, store, tfidf_vectorizer>>

Next ==
  \/ CallRank
  \/ CallFilteredRank
  \/ GetUser
  \/ GetHackathons
  \/ Score
  \/ SortAndSlice
  \/ Filter
  \/ Respond
  \/ Finish

Spec == Init /\ [][Next]_vars

\* ---------------------------------------------------------------- claims
\* A listing has both an identifier and a title (non-empty strings).
HasIdAndTitle(h) ==
  /\ h.id.t = "str" /\ Len(h.id.v) > 0
  /\ h.title.t = "str" /\ Len(h.title.v) > 0

\* the number of fetched listings that have both
NumValidFetched ==
  Cardinality({i \in 1..Len(hackathons) : HasIdAndTitle(hackathons[i])})

\* position of a returned entry's listing in the fetch
FetchPos(e) == CHOOSE k \in 1..Len(hackathons) : hackathons[k] = e.hackathon

RankDone == pc = "done" /\ op = "rank" /\ result.kind = "return"
FilteredDone == pc = "done" /\ op = "filteredRank" /\ result.kind = "return"

\* C1: for a non-negative count, rank returns min(count, number of fetched
\* listings with identifier and title) entries, hence at most count.
C1_RankLength ==
  (RankDone /\ count >= 0) =>
    /\ Len(result.value) <= count
    /\ Len(result.value) =
         (IF count < NumValidFetched THEN count ELSE NumValidFetched)

\* C1 witness: two valid listings fetched, count 1, one entry returned.
C1_Witness ==
  RankDone /\ count = 1 /\ NumValidFetched = 2 /\ Len(result.value) = 1

\* C2: the sequence rank returns is non-increasing in composite score, and
\* entries of equal score are in fetch order.
C2_SortedStable ==
  RankDone =>
    \A i, j \in 1..Len(result.value) :
      i < j =>
        /\ result.value[i].score >= result.value[j].score
        /\ (result.value[i].score = result.value[j].score
              => FetchPos(result.value[i]) < FetchPos(result.value[j]))

\* C2 witness: two different listings of equal score are both returned.
C2_Witness ==
  /\ RankDone /\ Len(result.value) = 2
  /\ result.value[1].score = result.value[2].score
  /\ result.value[1].hackathon # result.value[2].hackathon

\* C3: a listing without identifier or without title is never scored and
\* never returned by rank or filteredRank.
C3_MalformedExcluded ==
  /\ \A i \in 1..Len(hackathon_scores) : HasIdAndTitle(hackathon_scores[i].hackathon)
  /\ \A i \in 1..Len(recommendations) : HasIdAndTitle(recommendations[i].hackathon)
  /\ \A i \in 1..Len(result.value) : HasIdAndTitle(result.value[i].hackathon)

\* C3 witness: a fetched listing without title or identifier would have
\* outscored the entry returned, and there was room for it.
C3_Witness ==
  /\ pc = "done" /\ result.kind = "return"
  /\ Len(result.value) = 1 /\ count = 2
  /\ \E i \in 1..Len(hackathons) :
       /\ ~HasIdAndTitle(hackathons[i])
       /\ ScoreOne(tfidf_vectorizer, user_data.doc, hackathons[i]).entry.score
            > result.value[1].score

\* C4: the composite score of every scored candidate is
\* 0.30 skill + 0.25 content + 0.20 location + 0.15 mode + 0.10 prize of its
\* own component scores; the weights sum to 1.00; it lies in [0,1] when the
\* components do.
C4_CompositeScore ==
  /\ W_skill + W_content + W_location + W_mode + W_prize = 100
  /\ \A i \in 1..Len(hackathon_scores) :
       LET e == hackathon_scores[i]
       IN /\ e.score = 30 * e.skill_score + 25 * e.content_similarity
                        + 20 * e.location_score + 15 * e.mode_score
                        + 10 * e.prize_score
          /\ ({e.skill_score, e.content_similarity, e.location_score,
               e.mode_score, e.prize_score} \subseteq 0..Scale
                => e.score \in 0..(100 * Scale))

\* C4 witness: a scored candidate whose five component scores all differ.
C4_Witness ==
  \E i \in 1..Len(hackathon_scores) :
    LET e == hackathon_scores[i]
    IN Cardinality({e.skill_score, e.content_similarity, e.location_score,
                    e.mode_score, e.prize_score}) = 5

\* C5: for a user the store does not have, rank and filteredRank return the
\* empty sequence and raise nothing.
C5_UnknownUser ==
  (pc = "done" /\ user_id \notin DOMAIN store_users) =>
    (result.kind = "return" /\ result.value = <<>>)

\* C5 witness: filteredRank for an unknown user over a store with listings.
C5_Witness ==
  /\ pc = "done" /\ op = "filteredRank" /\ user_id \notin DOMAIN store_users
  /\ count > 0 /\ Len(store_hackathons) > 0 /\ Truthy(filters.mode)
  /\ result.kind = "return"

\* no response of the store lacked its documents collection
StoreAnswered ==
  \A i \in 1..Len(store_calls) :
    store_calls[i].outcome # "nodocuments"

\* the list request of this call returned a (well-formed) empty collection
ListedNothing ==
  \E i \in 1..Len(store_calls) :
    /\ store_calls[i].call = "get_hackathons"
    /\ store_calls[i].outcome = "result"
    /\ store_hackathons = <<>>

\* C6: when the hackathon list comes back empty, rank returns the empty
\* sequence, whatever the user and the count, and raises nothing.
C6_EmptyStore ==
  (pc = "done" /\ op = "rank" /\ ListedNothing) =>
    (result.kind = "return" /\ result.value = <<>>)

\* C6 witness: a known user asks for two entries of an empty store.
C6_Witness ==
  /\ pc = "done" /\ op = "rank" /\ ListedNothing
  /\ user_data.found /\ count = 2 /\ result.kind = "return"

\* C7: with a mode filter m, filteredRank returns only candidates whose
\* stored mode is exactly m (case-sensitive; a missing mode does not pass).
C7_ModeFilterExact ==
  (FilteredDone /\ filters.mode.t = "str" /\ Len(filters.mode.v) > 0) =>
    \A i \in 1..Len(result.value) :
      /\ result.value[i].hackathon.mode.t = "str"
      /\ result.value[i].hackathon.mode.v = filters.mode.v

\* C7 witness: a candidate stored with mode "Online" was ranked and is
\* left out under the filter "online", while another candidate is returned.
C7_Witness ==
  /\ FilteredDone /\ filters.mode.t = "str" /\ filters.mode.v = kw_online
  /\ Len(result.value) = 1 /\ count = 2
  /\ \E i \in 1..Len(recommendations) :
       /\ recommendations[i].hackathon.mode.t = "str"
       /\ recommendations[i].hackathon.mode.v # kw_online
       /\ Lower(recommendations[i].hackathon.mode.v) = kw_online

\* A listing passes the supplied filters: stored mode equal to the mode
\* filter, location containing the location filter (case-insensitive), prize
\* text containing a word of the requested tier.
PassesFilters(f, h) ==
  /\ (f.mode.t = "str" /\ Len(f.mode.v) > 0)
       => (h.mode.t = "str" /\ h.mode.v = f.mode.v)
  /\ (f.location.t = "str" /\ Len(f.location.v) > 0)
       => (h.location.t = "str"
           /\ Contains(Lower(h.location.v), Lower(f.location.v)))
  /\ (f.prize_range.t = "str" /\ f.prize_range.v \in {kw_high, kw_medium,
      kw_low})
       => (h.prize.t = "str"
           /\ \E w \in (IF f.prize_range.v = kw_high THEN FilterHighWords
                        ELSE IF f.prize_range.v = kw_medium THEN FilterMediumWords
                        ELSE FilterLowWords) :
                Contains(Lower(h.prize.v), w))

\* the ranked candidates that pass the filters of the call, in rank order
Survivors ==
  SelectSeq(recommendations, LAMBDA e : PassesFilters(filters, e.hackathon))

\* C8: for a count >= 0 and a store that answers, filteredRank raises
\* nothing and returns at most count candidates, all of which pass the
\* filters; when fewer than count candidates survive it returns exactly the
\* survivors.
C8_FilteredPartial ==
  (pc = "done" /\ op = "filteredRank" /\ count >= 0 /\ StoreAnswered) =>
    /\ result.kind = "return"
    /\ Len(result.value) <= count
    /\ \A i \in 1..Len(result.value) :
         PassesFilters(filters, result.value[i].hackathon)
    /\ (Len(Survivors) < count => result.value = Survivors)

\* ------------------------------------------- the similarity functions alone
\* SpecFn applies one similarity function at a time to arguments drawn from
\* the sets below; fn records the arguments and the value returned.
SkillInputs ==
  {List(<<>>), None, Str(<<>>),
   List(<<<<"P","y","t","h","o","n">>, <<"p","y","t","h","o","n">>>>),
   List(<<<<"g","o">>>>),
   List(<<<<" ","R","e","a","c","t"," ">>, <<>>>>),
   List(<<<<"p","y","t","h","o","n">>, <<"j","a","v","a">>>>),
   List(<<<<"g","o">>, <<"a","r","t">>, <<"j","a","v","a">>>>),
   Str(<<"g","o",","," ","a","r","t",",","G","o">>)}
TextInputs ==
  {<<>>, <<"P","y","t","h","o","n"," ","G","o","i","n","g">>, <<"A","R","T",
      " ","r","e","a","c","t">>, <<"j","a","v","a"," ","g","o">>}
LocationInputs ==
  {None, Str(<<>>), Str(<<" ">>), Str(<<"M","u","m","b","a","i">>), Str(<<" ",
      "m","u","m","b","a","i"," ">>),
   Str(<<" ","O","n","l","i","n","e"," ">>), Str(<<"o","n","l","i","n","e">>),
       Str(<<"V","i","r","t","u","a","l"," ","M","e","e","t">>),
   Str(<<"N","a","v","i"," ","M","u","m","b","a","i">>),
   Str(<<"n","e","w"," ","d","e","l","h","i">>), Str(<<"D","e","l","h","i">>)}

engine == <<store_users, store_hackathons, tfidf_vectorizer, pc, op, user_id,
            count, filters, user_data, hackathons, hackathon_scores,
            recommendations, result, store_calls, response, threads>>

\* the record of an application that returned ret: exc names an exception
\* raised out of the function, caught tells that its except branch ran
Applied(name, a, b, ret) ==
  [name |-> name, a |-> a, b |-> b, ret |-> ret, exc |-> "none",
   caught |-> FALSE]

\* SpecFn applies a function to an engine that has applied none yet; the
\* content similarity, which leaves its fit in the engine, is also applied
\* again after itself
NothingApplied == fn.name = "none"

\* the record of an application that raised exc
Raised(name, a, b, exc) ==
  [name |-> name, a |-> a, b |-> b, ret |-> 0, exc |-> exc, caught |-> FALSE]

\* the texts calculate_skill_similarity is applied to: strings, and None,
\* on which hackathon_text.lower() raises
TextValues == {Str(t) : t \in TextInputs} \cup {None}

ApplySkill ==
  /\ NothingApplied
  /\ \E s \in SkillInputs, t \in TextValues :
       fn' = IF t.t = "str"
             THEN Applied("skill", s, t, calculate_skill_similarity(s, t.v))
             ELSE Raised("skill", s, t, "AttributeError")
  /\ UNCHANGED engine

ApplyLocation ==
  /\ NothingApplied
  /\ \E u \in LocationInputs, h \in LocationInputs :
       fn' = Applied("location", u, h, calculate_location_match(u, h))
  /\ UNCHANGED engine


ModeInputs ==
  {None, Str(<<>>), Str(<<"o","n","l","i","n","e">>), Str(<<" ","O","n","l","i","n","e"," ">>), Str(<<"V","i","r","t","u","a","l">>),
   Str(<<"o","f","f","l","i","n","e">>), Str(<<"O","F","F","L","I","N","E">>), Str(<<"P","h","y","s","i","c","a","l">>), Str(<<"h","y","b","r","i","d">>),
   Str(<<" ">>)}

ApplyMode ==
  /\ NothingApplied
  /\ \E u \in ModeInputs, h \in ModeInputs :
       fn' = Applied("mode", u, h, calculate_mode_match(u, h))
  /\ UNCHANGED engine


PreferenceInputs ==
  {None, Str(<<>>), Str(<<"a","n","y">>), Str(<<"A","n","y">>), Str(<<"h","i","g","h">>), Str(<<"H","i","g","h">>),
   Str(<<"m","e","d","i","u","m">>), Str(<<"l","o","w">>)}
PrizeInputs ==
  {None, Str(<<>>), Str(<<"2"," ","L","a","k","h">>), Str(<<"INR","1","0","0","0","0">>), Str(<<"INR","5","0","0","0","0"," ","o","r"," ","1"," ","C","R","O","R","E">>),
   Str(<<"INR","1",",","0","0",",","0","0","0">>), Str(<<"INR","2",",","0","0",",","0","0","0">>), Str(<<"INR","5","0","0","0">>), Str(<<"G","o","o","d","i","e","s">>)}

ApplyPrize ==
  /\ NothingApplied
  /\ \E u \in PreferenceInputs, h \in PrizeInputs :
       fn' = Applied("prize", u, h, calculate_prize_match(u, h))
  /\ UNCHANGED engine


\* user profiles for the content similarity: the two stored ones, one
\* without any attribute, one whose words are all stop words, one whose
\* skills are a comma-separated string
UEmpty == UserDoc(Absent, Absent, Absent, Absent, Absent)
UStop == UserDoc(List(<<<<"g","o">>>>), None, Absent, Absent, Absent)
UString == UserDoc(Str(<<"a","r","t",","," ","g","o">>), Str(<<"D","e","l","h","i">>), Absent, Absent, Str(<<"O","n","l","i","n","e">>))
ContentUsers == {U1, U2, UEmpty, UStop, UString}

\* listings for the content similarity: those of the store, one without any
\* attribute, one whose text has no token
HBlank == Hackathon(Absent, Absent, Absent, Absent, Absent, Absent)
HShort == Hackathon(Str(<<"h","7">>), Str(<<"A">>), Absent, Str(<<>>), Absent, Absent)
ContentListings == ListingPool \cup {HBlank, HShort}

\* the variables of a ranking call, which the similarity functions leave
engine_call == <<store_users, store_hackathons, pc, op, user_id, count, filters, user_data, hackathons, hackathon_scores, recommendations, result, store_calls, response, threads>>

ApplyContent ==
  /\ NothingApplied \/ fn.name = "content"
  /\ \E u \in ContentUsers, h \in ContentListings :
       LET r == calculate_content_similarity(tfidf_vectorizer, u, h)
       IN /\ fn' = [Applied("content", u, h, r.ret) EXCEPT !.caught = r.caught]
          /\ tfidf_vectorizer' = r.vec
  /\ UNCHANGED engine_call

\* the scoring loop of get_recommendations on a user document and a fetched
\* list
ApplyScoring ==
  /\ NothingApplied
  /\ \E u \in {U1, U2, UStop}, hs \in DistinctSeqs(ContentListings, MaxListings) :
       LET loop == ScoreLoop(tfidf_vectorizer, u, hs, 1, <<>>)
       IN /\ fn' = Applied("scoring", u, hs, loop.scores)
          /\ tfidf_vectorizer' = loop.vec
  /\ UNCHANGED engine_call


\* component scores for get_recommendation_reason: the thresholds 0.4, 0.3,
\* 0.7 and 0.8 themselves, values above and values below
SkillScores == {0, Tenths(4), Tenths(5)}
ContentScores == {0, Tenths(3), Tenths(3) + 1}
LocationScores == {Tenths(3), Tenths(7), Tenths(9), Tenths(10)}
ModeScores == {Tenths(3), Tenths(8), Tenths(10)}
PrizeScores == {Tenths(3), Tenths(10)}

\* the reason of a candidate with the given component scores, as the
\* scoring loop asks for it; the prize score is not passed on
ApplyReason ==
  /\ NothingApplied
  /\ \E s \in SkillScores, c \in ContentScores, l \in LocationScores, m \in ModeScores, p \in PrizeScores :
       fn' = Applied("reason",
                [skill_score |-> s, content_similarity |-> c, location_score |-> l, mode_score |-> m, prize_score |-> p],
                None, get_recommendation_reason(s, c, l, m))
  /\ UNCHANGED engine


\* the prize texts and the tiers the prize filter is applied to
PrizeTexts == {p \in PrizeInputs : p.t = "str"}
PrizeTiers == {kw_high, kw_medium, kw_low}

\* the prize filter of get_filtered_recommendations on one candidate: ret
\* tells whether the candidate passes (the loop does not `continue`)
ApplyPrizeFilter ==
  /\ NothingApplied
  /\ \E tier \in PrizeTiers, p \in PrizeTexts :
       fn' = Applied("prize_filter", Str(tier), p,
                ~PrizeFilterSkips(Filters(Absent, Absent, Str(tier)),
                                  Hackathon(Str(<<"h">>), Str(<<"T">>), Absent, p, Absent, Absent)))
  /\ UNCHANGED engine

InitFn == Init /\ store_hackathons = <<>>

NextFn ==
  \/ ApplySkill
  \/ ApplyLocation
  \/ ApplyMode
  \/ ApplyPrize
  \/ ApplyContent
  \/ ApplyScoring
  \/ ApplyReason
  \/ ApplyPrizeFilter

SpecFn == InitFn /\ [][NextFn]_vars

\* needle occurs in hay as a contiguous piece (the empty string always does)
IsSubstring(needle, hay) ==
  \/ needle = <<>>
  \/ \E i, j \in 1..Len(hay) : SubSeq(hay, i, j) = needle

EitherEmpty(u, h) == u.t # "str" \/ h.t # "str" \/ u.v = <<>> \/ h.v = <<>>

MentionsOnline(h) ==
  IsSubstring(kw_online, Lower(h.v)) \/ IsSubstring(kw_virtual, Lower(h.v))

SharesToken(u, h) ==
  \E i \in 1..Len(SplitWs(Lower(u.v))) :
    IsSubstring(SplitWs(Lower(u.v))[i], Lower(h.v))

\* the value the location rules give when `same` decides the equality rule
LocationRule(u, h, same) ==
  IF EitherEmpty(u, h) THEN Scale \div 2
  ELSE IF same THEN Scale
  ELSE IF MentionsOnline(h) THEN (9 * Scale) \div 10
  ELSE IF SharesToken(u, h) THEN (7 * Scale) \div 10
  ELSE (3 * Scale) \div 10

\* C10 as stated: 0.5 if either location is empty; else 1.0 on exact
\* case-insensitive equality; else 0.9 if the hackathon location contains
\* "online" or "virtual"; else 0.7 if a whitespace-split token of the user
\* location appears in the hackathon location; else 0.3.
C10_Original ==
  fn.name = "location" =>
    fn.ret = LocationRule(fn.a, fn.b, Lower(fn.a.v) = Lower(fn.b.v))

\* C10 amended: the same rules in the same order, the equality rule
\* comparing the locations after lowercasing and stripping the whitespace
\* around them.
C10_LocationRules ==
  fn.name = "location" =>
    fn.ret = LocationRule(fn.a, fn.b,
                          Strip(Lower(fn.a.v)) = Strip(Lower(fn.b.v)))

\* C10 witness: two locations that differ only in case and surrounding
\* blanks and mention "online" score 1.0, the equality rule coming first.
C10_Witness ==
  /\ fn.name = "location"
  /\ ~EitherEmpty(fn.a, fn.b)
  /\ Lower(fn.a.v) # Lower(fn.b.v)
  /\ MentionsOnline(fn.b)
  /\ fn.ret = Scale

\* the value the mode rules give for the compared forms um and hm of the
\* user mode u and the hackathon mode h
ModeRule(u, h, um, hm) ==
  IF EitherEmpty(u, h) THEN Scale \div 2
  ELSE IF \/ um = hm
          \/ (um = kw_online /\ (hm = kw_online \/ hm = kw_virtual))
          \/ (um = kw_offline /\ (hm = kw_offline \/ hm = kw_physical))
  THEN Scale
  ELSE (3 * Scale) \div 10

\* C11 as stated: 0.5 if either mode is empty; otherwise, comparing
\* case-insensitively, 1.0 when the modes are equal, or the user mode is
\* "online" and the hackathon mode "online" or "virtual", or the user mode is
\* "offline" and the hackathon mode "offline" or "physical"; otherwise 0.3.
C11_Original ==
  fn.name = "mode" =>
    fn.ret = ModeRule(fn.a, fn.b, Lower(fn.a.v), Lower(fn.b.v))

\* C11 amended: the same rules, the modes compared after lowercasing and
\* stripping the whitespace around them.
C11_ModeRules ==
  fn.name = "mode" =>
    fn.ret = ModeRule(fn.a, fn.b, Strip(Lower(fn.a.v)), Strip(Lower(fn.b.v)))

\* C11 witness: user mode " Online " against hackathon mode "Virtual"
\* scores 1.0 through the online/virtual pair.
C11_Witness ==
  /\ fn.name = "mode"
  /\ fn.a = Str(<<" ","O","n","l","i","n","e"," ">>) /\ fn.b = Str(<<"V","i","r","t","u","a","l">>)
  /\ fn.ret = Scale

\* a value is empty: None or the empty string
IsEmpty(x) == x.t # "str" \/ x.v = <<>>

\* the tier of a prize text by keyword scan of the lowercased text
PrizeTier(text) ==
  IF \E w \in HighPrizeWords : IsSubstring(w, Lower(text)) THEN kw_high
  ELSE IF \E w \in MediumPrizeWords : IsSubstring(w, Lower(text)) THEN kw_medium
  ELSE kw_low

\* C12: prize match is 0.3 if the prize text is empty, else 0.7 if the user
\* preference is empty or "any", else 1.0 if the preference equals the tier
\* derived from the lowercased prize text (high words first, then medium
\* words, else low), else 0.5.
C12_PrizeRules ==
  fn.name = "prize" =>
    fn.ret = (IF IsEmpty(fn.b) THEN (3 * Scale) \div 10
              ELSE IF IsEmpty(fn.a) \/ fn.a.v = kw_any THEN (7 * Scale) \div 10
              ELSE IF fn.a.v = PrizeTier(fn.b.v) THEN Scale
              ELSE Scale \div 2)

\* C12 witness: a text with a medium word and (in capitals) a high word is
\* of tier high, so preference "high" scores 1.0.
C12_Witness ==
  /\ fn.name = "prize"
  /\ fn.a = Str(<<"h","i","g","h">>) /\ fn.b = Str(<<"INR","5","0","0","0","0"," ","o","r"," ","1"," ","C","R","O","R","E">>)
  /\ fn.ret = Scale

\* C13 as stated: with the preference "any", prize match is 0.7 for any
\* hackathon prize text.
C13_Original ==
  (fn.name = "prize" /\ fn.a = Str(kw_any)) => fn.ret = (7 * Scale) \div 10

\* C13 amended: with the preference "any", prize match is 0.7 for every
\* non-empty prize text and 0.3 for an empty or missing one.
C13_AnyPreference ==
  (fn.name = "prize" /\ fn.a = Str(kw_any)) =>
    fn.ret = (IF IsEmpty(fn.b) THEN (3 * Scale) \div 10
              ELSE (7 * Scale) \div 10)

\* C13 witness: preference "any" against a prize text of tier high is 0.7.
C13_Witness ==
  /\ fn.name = "prize"
  /\ fn.a = Str(kw_any) /\ fn.b = Str(<<"2"," ","L","a","k","h">>)
  /\ fn.ret = (7 * Scale) \div 10

\* an attribute contributes nothing to a text blob: missing or the empty
\* string (a null is formatted as the word None)
Blank(x) == x.t = "absent" \/ (x.t = "str" /\ x.v = <<>>)

\* the user text blob (skills, location, mode) is empty
UserBlobEmpty(u) ==
  /\ Blank(u.skills) \/ (u.skills.t = "list" /\ u.skills.v = <<>>)
  /\ Blank(u.location)
  /\ Blank(u.mode)

\* the hackathon text blob (title, organization, prize, mode, location) is
\* empty
HackathonBlobEmpty(h) ==
  Blank(h.title) /\ Blank(h.organization) /\ Blank(h.prize) /\ Blank(h.mode) /\ Blank(h.location)

\* the similarity computation for this pair ends in the except branch
ContentFails(u, h) ==
  calculate_content_similarity(UnfittedVectorizer, u, h).caught

\* the entries of a scored list whose listing is h
EntriesOf(scores, h) == SelectSeq(scores, LAMBDA e : e.hackathon = h)

\* C14: content similarity is 0.0 when the user text blob or the hackathon
\* text blob is empty and when the computation fails; in the scoring loop of
\* rank a candidate whose computation fails has content score 0.0 and is
\* scored all the same, as is every other listing with id and title.
C14_ContentFailure ==
  /\ fn.name = "content" =>
       ((UserBlobEmpty(fn.a) \/ HackathonBlobEmpty(fn.b) \/ fn.caught)
          => fn.ret = 0)
  /\ fn.name = "scoring" =>
       \A i \in 1..Len(fn.b) :
         HasIdAndTitle(fn.b[i]) =>
           LET es == EntriesOf(fn.ret, fn.b[i])
           IN /\ Len(es) = 1
              /\ ContentFails(fn.a, fn.b[i]) =>
                   /\ es[1].content_similarity = 0
                   /\ es[1].score = 30 * es[1].skill_score
                          + 20 * es[1].location_score + 15 * es[1].mode_score
                          + 10 * es[1].prize_score

\* C14 witness: in a list of two the computation fails for the first
\* candidate (no term survives), which is scored with content 0.0 and a
\* positive score, and the second candidate is scored after it.
C14_Witness ==
  /\ fn.name = "scoring" /\ Len(fn.b) = 2 /\ Len(fn.ret) = 2
  /\ ContentFails(fn.a, fn.b[1]) /\ ~ContentFails(fn.a, fn.b[2])
  /\ fn.ret[1].content_similarity = 0 /\ fn.ret[1].score > 0
  /\ fn.ret[2].hackathon = fn.b[2]

\* the store calls of the call in progress that did not reach the store
Unreached == {i \in 1..Len(store_calls) : ~store_calls[i].reached}

\* the list requests of the call in progress
ListCalls == {i \in 1..Len(store_calls) : store_calls[i].call = "get_hackathons"}

\* C15: when the store cannot be reached by get_user or by the list request
\* of rank, the caller gets an outcome that differs from the outcome of
\* 'user not found' and of 'no hackathons stored' (the empty sequence), and
\* no store call is repeated.
C15_UnavailablePropagated ==
  (pc = "done" /\ op = "rank" /\ Unreached # {}) =>
    /\ result # Return(<<>>)
    /\ Len(store_calls) <= 2
    /\ Cardinality(ListCalls) <= 1

\* the list request of the call in progress failed: the store was not
\* reached, or its response had no documents collection
FetchFailed ==
  \E i \in ListCalls :
    ~store_calls[i].reached \/ store_calls[i].outcome = "nodocuments"

\* C16: when the list request of rank fails, the route answers with an empty
\* list of recommendations, the list request was made once, and nothing of
\* an earlier call is served.
C16_FetchFailureEmpty ==
  (pc = "responded" /\ FetchFailed) =>
    /\ response.recommendations = <<>>
    /\ response.status \in {200, 500}
    /\ Cardinality(ListCalls) = 1
    /\ hackathons = <<>> /\ hackathon_scores = <<>>

\* C16 witness: the store holds listings and an earlier call has scored
\* some, the response to the list request has no documents collection, and
\* the route answers success False with an empty list.
C16_Witness ==
  /\ pc = "responded" /\ FetchFailed
  /\ store_hackathons # <<>> /\ tfidf_vectorizer.fitted
  /\ \E i \in ListCalls : store_calls[i].outcome = "nodocuments"
  /\ result.kind = "raise"
  /\ ~response.success /\ response.recommendations = <<>>

\* ------------------------------------------------- two concurrent calls
\* SpecConc runs get_recommendations in two threads on the one engine, as
\* the threaded server does for two requests. Each call has its own locals
\* (threads[t]); self.tfidf_vectorizer is the engine's. fit_transform first
\* fits the vectorizer (a write of the engine's idf vector) and then
\* transforms the counts of its own corpus with the idf vector the engine
\* holds at that moment; the other thread may run between the two.

\* the order of the characters of a term
CharOrder == <<"0","1","2","3","4","5","6","7","8","9","_">> \o LowerChars
CharRank(c) == CHOOSE k \in 1..Len(CharOrder) : CharOrder[k] = c

\* a sorts before b (the feature indices follow the sorted vocabulary)
RECURSIVE TermLess(_, _)
TermLess(a, b) ==
  IF b = <<>> THEN FALSE
  ELSE IF a = <<>> THEN TRUE
  ELSE IF Head(a) = Head(b) THEN TermLess(Tail(a), Tail(b))
  ELSE CharRank(Head(a)) < CharRank(Head(b))

\* the feature index of term t in vocabulary V, and the term at an index
FeatureIndex(V, t) == 1 + Cardinality({u \in V : TermLess(u, t)})
FeatureAt(V, k) == CHOOSE t \in V : FeatureIndex(V, t) = k

\* calculate_content_similarity returns 0.0 before it fits anything: null
\* skills, an empty text, or a corpus without any term
ContentReturnsEarly(user_profile, hackathon) ==
  \/ GetOr(user_profile.skills, List(<<>>)).t = "none"
  \/ UserText(user_profile) = <<>>
  \/ extract_features_from_hackathon(hackathon) = <<>>
  \/ FitVectorizer(<<Lower(UserText(user_profile)), extract_features_from_hackathon(hackathon)>>).vocabulary = {}

\* the transform half of fit_transform and the cosine, for a corpus whose
\* counts the thread has made, under the idf vector the engine holds: a
\* vector of another length raises ValueError (0.0 from the except branch),
\* one of the same length weights feature k by its entry k
TransformShared(shared, corpus) ==
  LET own == FitVectorizer(corpus)
      V == own.vocabulary
  IN IF Cardinality(shared.vocabulary) # Cardinality(V) THEN 0
     ELSE CosineSimilarity(
            [fitted |-> TRUE, vocabulary |-> V,
             both |-> {t \in V : FeatureAt(shared.vocabulary, FeatureIndex(V, t)) \in shared.both}],
            corpus[1], corpus[2])

\* the variables of the sequential specifications
sequential == <<store_users, store_hackathons, pc, op, user_id, count, filters, user_data, hackathons, hackathon_scores, recommendations, result, store_calls, response, fn>>

\* the count both threads ask for
ThreadCount == MaxCount

\* thread t calls get_recommendations for a stored user; the store answers
\* both requests
T_Start(t) ==
  /\ threads[t].pc = "idle"
  /\ \E u \in DOMAIN store_users :
       LET found == get_user(store_users, u, TRUE)
           hackathons_response == get_hackathons(store_hackathons, FetchLimit, "ok")
       IN threads' = [threads EXCEPT ![t] =
            IF hackathons_response.documents = <<>>
            THEN [ThreadIdle EXCEPT !.pc = "done", !.user_id = u, !.result = Return(<<>>)]
            ELSE [ThreadIdle EXCEPT !.pc = "score", !.user_id = u, !.i = 1,
                                    !.hackathons = hackathons_response.documents]]
  /\ UNCHANGED <<sequential, tfidf_vectorizer>>

\* thread t takes the next listing: skips it, or computes its scores up to
\* the fit of the vectorizer on its corpus
T_Score(t) ==
  LET me == threads[t]
      profile == store_users[me.user_id]
  IN /\ me.pc = "score" /\ me.i <= Len(me.hackathons)
     /\ LET hackathon == me.hackathons[me.i]
            corpus == <<Lower(UserText(profile)), extract_features_from_hackathon(hackathon)>>
        IN IF ~HasRequiredFields(hackathon)
           THEN /\ threads' = [threads EXCEPT ![t].i = me.i + 1]
                /\ UNCHANGED tfidf_vectorizer
           ELSE IF ContentReturnsEarly(profile, hackathon)
           THEN /\ threads' = [threads EXCEPT ![t].i = me.i + 1,
                     ![t].hackathon_scores = Append(me.hackathon_scores, ScoreEntry(profile, hackathon, 0))]
                /\ UNCHANGED tfidf_vectorizer
           ELSE /\ tfidf_vectorizer' = FitVectorizer(corpus)
                /\ threads' = [threads EXCEPT ![t].pc = "transform", ![t].corpus = corpus]
     /\ UNCHANGED sequential

\* thread t transforms its corpus with the engine's vectorizer and appends
\* the entry
T_Transform(t) ==
  LET me == threads[t]
      profile == store_users[me.user_id]
      hackathon == me.hackathons[me.i]
  IN /\ me.pc = "transform"
     /\ threads' = [threads EXCEPT ![t].pc = "score", ![t].i = me.i + 1, ![t].corpus = <<>>,
          ![t].hackathon_scores = Append(me.hackathon_scores,
              ScoreEntry(profile, hackathon, TransformShared(tfidf_vectorizer, me.corpus)))]
     /\ UNCHANGED <<sequential, tfidf_vectorizer>>

\* thread t sorts, slices and returns
T_Return(t) ==
  LET me == threads[t]
  IN /\ me.pc = "score" /\ me.i > Len(me.hackathons)
     /\ threads' = [threads EXCEPT ![t].pc = "done",
          ![t].hackathon_scores = SortByScore(me.hackathon_scores),
          ![t].result = Return(SliceTo(SortByScore(me.hackathon_scores), ThreadCount))]
     /\ UNCHANGED <<sequential, tfidf_vectorizer>>

NextConc ==
  \/ \E t \in Threads : T_Start(t)
  \/ \E t \in Threads : T_Score(t)
  \/ \E t \in Threads : T_Transform(t)
  \/ \E t \in Threads : T_Return(t)

SpecConc == Init /\ [][NextConc]_vars

\* what the call of thread t returns when it runs alone
AloneResult(t) ==
  LET me == threads[t]
      alone == ScoreLoop(UnfittedVectorizer, store_users[me.user_id], me.hackathons, 1, <<>>)
  IN Return(SliceTo(SortByScore(alone.scores), ThreadCount))

\* C17: under every interleaving of two rank calls on the same engine, each
\* call returns the sequence and the scores it returns when run alone, and
\* a call that is about to transform finds the fit it made itself.
C17_CallsIsolated ==
  \A t \in Threads :
    /\ threads[t].pc = "done" => threads[t].result = AloneResult(t)
    /\ threads[t].pc = "transform" =>
         tfidf_vectorizer = FitVectorizer(threads[t].corpus)

\* the five similarity functions
SimilarityFunctions == {"skill", "location", "mode", "prize", "content"}

\* the neutral default of the function applied last, when an attribute it
\* was given is empty or missing; Scale + 1 when none is
NeutralDefault ==
  IF fn.name = "skill"
  THEN IF fn.a.t = "none" \/ fn.a.v = <<>> THEN 0 ELSE Scale + 1
  ELSE IF fn.name \in {"location", "mode"}
  THEN IF IsEmpty(fn.a) \/ IsEmpty(fn.b) THEN Scale \div 2 ELSE Scale + 1
  ELSE IF fn.name = "prize"
  THEN IF IsEmpty(fn.b) THEN (3 * Scale) \div 10
       ELSE IF IsEmpty(fn.a) THEN (7 * Scale) \div 10 ELSE Scale + 1
  ELSE IF UserBlobEmpty(fn.a) \/ HackathonBlobEmpty(fn.b) \/ fn.a.skills.t = "none"
  THEN 0 ELSE Scale + 1

\* C18: each of the five similarity functions returns for every input, an
\* empty or missing attribute included, raising nothing; the value is in
\* [0,1], and it is the neutral default of the function when an attribute
\* is empty or missing.
C18_Total ==
  fn.name \in SimilarityFunctions =>
    /\ fn.exc = "none"
    /\ fn.ret \in 0..Scale
    /\ NeutralDefault <= Scale => fn.ret = NeutralDefault

\* the reason the rules give: first match, in the order skill, content,
\* location, mode, with strict inequalities (scores in units of 1/Scale)
ReasonRule(e) ==
  IF 10 * e.skill_score > 4 * Scale THEN "Matches your technical skills"
  ELSE IF 10 * e.content_similarity > 3 * Scale THEN "Similar to your interests and profile"
  ELSE IF 10 * e.location_score > 7 * Scale THEN "Perfect location match"
  ELSE IF 10 * e.mode_score > 8 * Scale THEN "Matches your preferred mode"
  ELSE "Recommended for you"

\* C19: the reason is that of the first matching rule in the order
\* skill > 0.4, content > 0.3, location > 0.7, mode > 0.8, else the generic
\* reason; a score on its threshold does not match; the reason of every
\* scored candidate follows from its four scores, whatever its prize score.
C19_ReasonRules ==
  /\ fn.name = "reason" => fn.ret = ReasonRule(fn.a)
  /\ fn.name = "scoring" =>
       \A i \in 1..Len(fn.ret) : fn.ret[i].recommendation_reason = ReasonRule(fn.ret[i])

\* C19 witness: skill, content, location and mode all on their thresholds
\* and the highest prize score give the generic reason.
C19_Witness ==
  /\ fn.name = "reason"
  /\ fn.a.skill_score * 10 = 4 * Scale /\ fn.a.content_similarity * 10 = 3 * Scale
  /\ fn.a.location_score * 10 = 7 * Scale /\ fn.a.mode_score * 10 = 8 * Scale
  /\ fn.a.prize_score = Scale
  /\ fn.ret = "Recommended for you"

\* C20: for count >= 0 filteredRank returns, in rank order, the first count
\* entries of rank(userId, 2 * count) that pass every supplied filter, or
\* all of them if they are fewer; with no filters it returns what
\* rank(userId, count) returns.
C20_FilteredIsRankPrefix ==
  (pc = "done" /\ op = "filteredRank" /\ count >= 0 /\ StoreAnswered) =>
    /\ result.kind = "return"
    /\ recommendations = SliceTo(SortByScore(hackathon_scores), 2 * count)
    /\ result.value = SliceTo(Survivors, count)
    /\ FiltersFalsy(filters) =>
         result.value = SliceTo(SortByScore(hackathon_scores), count)

\* C21: a candidate passes the prize filter for a requested tier if and only
\* if the tier calculate_prize_match derives for its prize text is the
\* requested tier.
C21_FilterUsesPrizeLevel ==
  fn.name = "prize_filter" => (fn.ret <=> prize_level(fn.b.v) = fn.a.v)

\* the content similarity of a pair on an engine that has compared nothing
FreshContent(user_profile, hackathon) ==
  calculate_content_similarity(UnfittedVectorizer, user_profile, hackathon).ret

\* C22: in any sequence of calls on the engine, the content similarity of
\* every scored candidate is the value its pair of documents gives on an
\* engine that has compared nothing before, whatever the engine's
\* vectorizer was fitted on earlier.
C22_CallScoped ==
  \A i \in 1..Len(hackathon_scores) :
    hackathon_scores[i].content_similarity
      = FreshContent(user_data.doc, hackathon_scores[i].hackathon)

\* C22 witness: the second candidate of a call was compared on a vectorizer
\* fitted on the first, whose text is another one, and both similarities
\* are positive and differ.
C22_Witness ==
  /\ pc = "sort" /\ Len(hackathon_scores) = 2
  /\ extract_features_from_hackathon(hackathon_scores[1].hackathon)
       # extract_features_from_hackathon(hackathon_scores[2].hackathon)
  /\ hackathon_scores[1].content_similarity > 0
  /\ hackathon_scores[2].content_similarity > 0
  /\ hackathon_scores[1].content_similarity # hackathon_scores[2].content_similarity

\* each of a's five component scores is at least b's and one is greater
Dominates(a, b) ==
  /\ a.skill_score >= b.skill_score
  /\ a.content_similarity >= b.content_similarity
  /\ a.location_score >= b.location_score
  /\ a.mode_score >= b.mode_score
  /\ a.prize_score >= b.prize_score
  /\ \/ a.skill_score > b.skill_score
     \/ a.content_similarity > b.content_similarity
     \/ a.location_score > b.location_score
     \/ a.mode_score > b.mode_score
     \/ a.prize_score > b.prize_score

\* the position of a scored entry in the sequence rank returned, 0 when it
\* was not returned
ReturnedAt(e) ==
  IF \E k \in 1..Len(result.value) : result.value[k] = e
  THEN CHOOSE k \in 1..Len(result.value) : result.value[k] = e
  ELSE 0

\* C23: when a scored candidate A dominates a scored candidate B of the
\* same fetch, A's composite score is greater than B's, and in what rank
\* returns B never appears without A before it.
C23_Monotone ==
  \A i, j \in 1..Len(hackathon_scores) :
    Dominates(hackathon_scores[i], hackathon_scores[j]) =>
      /\ hackathon_scores[i].score > hackathon_scores[j].score
      /\ (RankDone /\ ReturnedAt(hackathon_scores[j]) > 0) =>
           /\ ReturnedAt(hackathon_scores[i]) > 0
           /\ ReturnedAt(hackathon_scores[i]) < ReturnedAt(hackathon_scores[j])

\* C23 witness: B is fetched before A, A dominates B, and rank with count 1
\* returns A alone.
C23_Witness ==
  /\ RankDone /\ count = 1 /\ Len(hackathon_scores) = 2 /\ Len(result.value) = 1
  /\ \E i, j \in 1..2 :
       /\ Dominates(hackathon_scores[i], hackathon_scores[j])
       /\ FetchPos(hackathon_scores[j]) < FetchPos(hackathon_scores[i])
       /\ result.value[1] = hackathon_scores[i]

\* C24: for a count that is zero or negative rank returns the empty
\* sequence, so the length of what it returns (and of what the route
\* answers) is at most the count also then.
C24_NonPositiveCountEmpty ==
  /\ (RankDone /\ count <= 0) => result.value = <<>>
  /\ (pc = "responded" /\ count <= 0) => response.recommendations = <<>>

\* the composite score of a fetched listing for the user of the call
ScoreOf(h) == ScoreEntry(user_data.doc, h, FreshContent(user_data.doc, h)).score

\* the fetched listing h is in the sequence rank returned
IsReturned(h) == \E k \in 1..Len(result.value) : result.value[k].hackathon = h

\* C25: for count >= 0 every entry rank returns is a fetched listing with
\* identifier and title, no listing is returned twice, and every such
\* listing that is not returned scores at most what each returned entry
\* scores.
C25_BestReturned ==
  (RankDone /\ count >= 0) =>
    /\ \A k \in 1..Len(result.value) :
         /\ \E i \in 1..Len(hackathons) : hackathons[i] = result.value[k].hackathon
         /\ result.value[k].score = ScoreOf(result.value[k].hackathon)
    /\ \A k, l \in 1..Len(result.value) :
         k # l => result.value[k].hackathon # result.value[l].hackathon
    /\ \A i \in 1..Len(hackathons) :
         (HasIdAndTitle(hackathons[i]) /\ ~IsReturned(hackathons[i])) =>
           \A k \in 1..Len(result.value) :
             ScoreOf(hackathons[i]) <= result.value[k].score

\* C25 witness: of two valid listings with different scores rank with count
\* 1 returns the second of the fetch and leaves the first, which scores
\* less, out.
C25_Witness ==
  /\ RankDone /\ count = 1 /\ Len(hackathons) = 2 /\ Len(result.value) = 1
  /\ HasIdAndTitle(hackathons[1])
  /\ result.value[1].hackathon = hackathons[2]
  /\ ScoreOf(hackathons[1]) < result.value[1].score

\* the operations of the store client that only read
ReadCalls == {"get_user", "get_hackathons"}

\* the store calls of the call in progress, as get_recommendations makes
\* them: get_user first, then, only for a user that was found, one
\* get_hackathons with limit 500
CallsInOrder ==
  /\ Len(store_calls) <= 2
  /\ \A i \in 1..Len(store_calls) : store_calls[i].call \in ReadCalls
  /\ pc \notin {"idle", "get_user"} =>
       /\ Len(store_calls) >= 1
       /\ store_calls[1].call = "get_user"
  /\ pc \in {"score", "sort"} => Len(store_calls) = 2
  /\ Len(store_calls) = 2 =>
       /\ store_calls[1].outcome = "found"
       /\ store_calls[2].call = "get_hackathons"
       /\ store_calls[2].limit = FetchLimit

\* C26: a rank call, alone or inside filteredRank, calls get_user exactly
\* once, then get_hackathons at most once, with limit 500 and only for a
\* user that was found, calls no other store operation, and no step of any
\* sequence of calls changes the content of the store.
C26_ReadsInOrder == []CallsInOrder /\ [][store' = store]_vars

\* C26 witness: rank with count 1 returned an entry after get_user found
\* the user and one list request with limit 500 was answered from a store
\* of two listings.
C26_Witness ==
  /\ RankDone /\ count = 1 /\ Len(result.value) = 1
  /\ Len(store_hackathons) = 2
  /\ Len(store_calls) = 2
  /\ store_calls[1] = StoreCall("get_user", 0, TRUE, "found")
  /\ store_calls[2] = StoreCall("get_hackathons", FetchLimit, TRUE, "result")

====
